---- MODULE Spec2Model ----
(***************************************************************************)
(* Model of MapComponent (src/map-component.tsx): the waypoint store       *)
(* (taskPoints), the selection (selectedPoint), the simulated vehicle      *)
(* (vehicleData), the connection and mission flags, and the simulation     *)
(* interval installed by the component's useEffect.                        *)
(*                                                                         *)
(* Numbers.  Coordinates are offsets from DEFAULT_POSITION counted in      *)
(* units of moveSpeed (0.0001 degree), so moveSpeed is 1 and the arrival   *)
(* threshold 0.0005 is 5.  The battery is counted in units of its          *)
(* decrement (0.01), so 100 is 10000.  A JavaScript number is a record     *)
(* [tag, val]: tag "number" with an integer val, "NaN", or "undefined"     *)
(* (what reading a missing property yields).  The square root is never     *)
(* taken: the distance is carried as its square, which decides             *)
(* `distance < 0.0005` and `distance = 0` exactly; the step                *)
(* (dx / distance) * moveSpeed is rounded to the nearest unit.             *)
(***************************************************************************)
EXTENDS Integers, Sequences, FiniteSets, TLC

VARIABLES taskPoints, selectedPoint, vehicleData, isConnected, missionActive,
          interval, alert, now

vars == <<taskPoints, selectedPoint, vehicleData, isConnected, missionActive,
          interval, alert, now>>

(* ------------------------------ bounds -------------------------------- *)
\* The store takes map clicks while it holds fewer than MaxPoints waypoints.
MaxPoints == 2
\* Date.now() is followed through the values 1..MaxClock.
MaxClock == 2
\* Ticks are followed for MaxTicks decrements below a full battery and from
\* MaxTicks decrements above the floor downwards.
MaxTicks == 2
\* The farthest click, in units of moveSpeed (beyond the arrival threshold).
MaxLat == 5
MaxLng == 1
\* The longest mission of MissionSpec.
MissionPoints == 3

(* ------------------------- program constants -------------------------- *)
moveSpeed == 1
ArrivalThreshold == 5
BatteryFull == 10000
BatteryDecrement == 1
\* The alert texts, written here without their Turkish diacritics.
NoAlert == "none"
AddPointsWarning == "Lutfen once gorev noktalari ekleyin!"
EmergencyAlert == "ACIL DURDURMA ETKINLESTIRILDI!"
InvalidFileAlert == "Gecersiz gorev dosyasi!"

(* --------------------------- JS numbers ------------------------------- *)
Num(n) == [tag |-> "number", val |-> n]
NaN == [tag |-> "NaN", val |-> 0]
Undefined == [tag |-> "undefined", val |-> 0]
IsNum(a) == a.tag = "number"

JsSub(a, b) == IF IsNum(a) /\ IsNum(b) THEN Num(a.val - b.val) ELSE NaN
JsAdd(a, b) == IF IsNum(a) /\ IsNum(b) THEN Num(a.val + b.val) ELSE NaN

Abs(n) == IF n < 0 THEN -n ELSE n
Sgn(n) == IF n < 0 THEN -1 ELSE IF n > 0 THEN 1 ELSE 0
Max(a, b) == IF a >= b THEN a ELSE b

RECURSIVE Gcd(_, _)
Gcd(a, b) == IF b = 0 THEN a ELSE Gcd(b, a % b)

\* dx * dx + dy * dy, the square of `distance` (line 76).
DistanceSq(dx, dy) ==
    IF IsNum(dx) /\ IsNum(dy) THEN Num(dx.val * dx.val + dy.val * dy.val) ELSE NaN

\* (d / distance) * moveSpeed (lines 83-84), rounded to the nearest unit:
\* the largest k with k - 1/2 <= |d| * moveSpeed / distance.  0 / 0 is NaN.
UnitStep(d, distSq) ==
    IF ~(IsNum(d) /\ IsNum(distSq)) THEN NaN
    ELSE IF distSq.val = 0 THEN NaN
    ELSE LET ks == {k \in 0..moveSpeed :
                      k = 0 \/ (2 * k - 1) * (2 * k - 1) * distSq.val
                                 <= 4 * d.val * d.val * moveSpeed * moveSpeed}
             k == CHOOSE m \in ks : \A o \in ks : o <= m
         IN Num(Sgn(d.val) * k)

\* distance < 0.0005 (line 97); a comparison with NaN is false.
BelowThreshold(distSq) ==
    IsNum(distSq) /\ distSq.val < ArrivalThreshold * ArrivalThreshold

\* Math.atan2(dy, dx) * (180 / Math.PI) (line 79).  The angle is represented
\* by the direction it points in, reduced to lowest terms; atan2(0, 0) is 0,
\* the angle of direction (dy, dx) = (0, 1).
Atan2Deg(dy, dx) ==
    IF ~(IsNum(dy) /\ IsNum(dx)) THEN [tag |-> "NaN", dy |-> 0, dx |-> 0]
    ELSE IF dy.val = 0 /\ dx.val = 0 THEN [tag |-> "number", dy |-> 0, dx |-> 1]
    ELSE LET g == Gcd(Abs(dy.val), Abs(dx.val))
         IN [tag |-> "number", dy |-> dy.val \div g, dx |-> dx.val \div g]

(* ----------------------------- inputs --------------------------------- *)
\* Where the operator clicks on the map: on the vehicle's meridian, one step
\* away from its default position and beyond the arrival threshold.
ClickLats == {1, MaxLat}
ClickLngs == {0}

\* Math.random() * 5 + 5 (line 92): two samples of [5, 10).
SpeedSamples == {5, 9}

\* A waypoint as addTaskPoint builds it (lines 108-114).  Its name is left
\* out: it is only displayed, and no handler or effect reads it.
TaskPoint(id, lat, lng) ==
    [id |-> id, latitude |-> Num(lat), longitude |-> Num(lng), altitude |-> Num(0)]

\* An array element without latitude and longitude.
MalformedPoint ==
    [id |-> 1, latitude |-> Undefined, longitude |-> Undefined, altitude |-> Num(0)]

\* The files offered to the import: text that is not JSON, JSON that is not
\* an array, and arrays (empty, one well-formed
\* waypoint at the vehicle's default position, one malformed element).
Files ==
    { [json |-> FALSE, array |-> FALSE, items |-> <<>>],
      [json |-> TRUE, array |-> FALSE, items |-> <<>>],
      [json |-> TRUE, array |-> TRUE, items |-> <<>>],
      [json |-> TRUE, array |-> TRUE, items |-> <<TaskPoint(1, 0, 0)>>],
      [json |-> TRUE, array |-> TRUE, items |-> <<MalformedPoint>>] }

(* ------------------------------ state --------------------------------- *)
\* The effect of lines 63-104 after a render: the interval exists exactly
\* when the early return of line 64 is not taken.
SimulationEffect(connected) == connected

Init ==
    /\ taskPoints = <<>>
    /\ selectedPoint = <<>>
    /\ vehicleData = [latitude |-> Num(0), longitude |-> Num(0),
                      heading |-> [tag |-> "number", dy |-> 0, dx |-> 1],
                      speed |-> 0, battery |-> BatteryFull]
    /\ isConnected = FALSE
    /\ missionActive = FALSE
    /\ interval = SimulationEffect(FALSE)
    /\ alert = NoAlert
    /\ now = 1

(* ----------------------------- handlers ------------------------------- *)
\* What every handler below leaves alone unless it says otherwise.  The
\* component re-renders after each state change and the effect re-runs, so
\* the interval is re-established from the new isConnected.
Render == interval' = SimulationEffect(isConnected')

\* `at` is what Date.now() returns (line 109).
addTaskPoint(lat, lng, at) ==
    LET newPoint == TaskPoint(at, lat, lng)
    IN /\ taskPoints' = Append(taskPoints, newPoint)
       /\ now' = at
       /\ alert' = NoAlert
       /\ UNCHANGED <<selectedPoint, vehicleData, isConnected, missionActive>>
       /\ Render

removeTaskPoint(id) ==
    /\ taskPoints' = SelectSeq(taskPoints, LAMBDA point : point.id # id)
    /\ selectedPoint' = IF selectedPoint # <<>> /\ selectedPoint[1] = id
                        THEN <<>> ELSE selectedPoint
    /\ alert' = NoAlert
    /\ UNCHANGED <<vehicleData, isConnected, missionActive, now>>
    /\ Render

clearTaskPoints ==
    /\ taskPoints' = <<>>
    /\ selectedPoint' = <<>>
    /\ alert' = NoAlert
    /\ UNCHANGED <<vehicleData, isConnected, missionActive, now>>
    /\ Render

\* importTaskPoints with reader.onload: JSON.parse throws on text that is
\* not JSON and the catch alerts; an array replaces the store as it is;
\* any other JSON value is dropped silently.
importTaskPoints(file) ==
    /\ IF ~file.json
         THEN alert' = InvalidFileAlert /\ UNCHANGED taskPoints
         ELSE /\ alert' = NoAlert
              /\ taskPoints' = IF file.array THEN file.items ELSE taskPoints
    /\ UNCHANGED <<selectedPoint, vehicleData, isConnected, missionActive, now>>
    /\ Render

\* Of the selected point the component only ever reads the id (lines 121,
\* 318), so the selection is kept as that id: <<>> is null.
setSelectedPoint(point) ==
    /\ selectedPoint' = <<point.id>>
    /\ alert' = NoAlert
    /\ UNCHANGED <<taskPoints, vehicleData, isConnected, missionActive, now>>
    /\ Render

connectToVehicle ==
    /\ isConnected' = TRUE
    /\ alert' = NoAlert
    /\ UNCHANGED <<taskPoints, selectedPoint, vehicleData, missionActive, now>>
    /\ Render

\* disconnectFromVehicle without line 182.
disconnectFromVehicle_KeepsMission ==
    /\ isConnected' = FALSE
    /\ alert' = NoAlert
    /\ UNCHANGED <<taskPoints, selectedPoint, vehicleData, missionActive, now>>
    /\ Render

disconnectFromVehicle ==
    /\ isConnected' = FALSE
    /\ missionActive' = FALSE
    /\ alert' = NoAlert
    /\ UNCHANGED <<taskPoints, selectedPoint, vehicleData, now>>
    /\ Render

\* startMission without the check of lines 187-190.
startMission_NoEmptyCheck ==
    /\ missionActive' = TRUE
    /\ alert' = NoAlert
    /\ UNCHANGED <<taskPoints, selectedPoint, vehicleData, isConnected, now>>
    /\ Render

startMission ==
    /\ IF Len(taskPoints) = 0
         THEN alert' = AddPointsWarning /\ UNCHANGED missionActive
         ELSE alert' = NoAlert /\ missionActive' = TRUE
    /\ UNCHANGED <<taskPoints, selectedPoint, vehicleData, isConnected, now>>
    /\ Render

stopMission ==
    /\ missionActive' = FALSE
    /\ alert' = NoAlert
    /\ UNCHANGED <<taskPoints, selectedPoint, vehicleData, isConnected, now>>
    /\ Render

emergencyStop ==
    /\ missionActive' = FALSE
    /\ alert' = EmergencyAlert
    /\ UNCHANGED <<taskPoints, selectedPoint, vehicleData, isConnected, now>>
    /\ Render

(* ------------------------- the interval callback ---------------------- *)
\* MovedVehicle without the Math.max of line 93.
MovedVehicle_NoFloor(speed) ==
    LET targetPoint == taskPoints[1]
        dx == JsSub(targetPoint.latitude, vehicleData.latitude)
        dy == JsSub(targetPoint.longitude, vehicleData.longitude)
        distanceSq == DistanceSq(dx, dy)
        newLat == JsAdd(vehicleData.latitude, UnitStep(dx, distanceSq))
        newLng == JsAdd(vehicleData.longitude, UnitStep(dy, distanceSq))
    IN [vehicleData EXCEPT !.latitude = newLat,
                           !.longitude = newLng,
                           !.heading = Atan2Deg(dy, dx),
                           !.speed = speed,
                           !.battery = @ - BatteryDecrement]

\* The vehicle after one callback that found a target (lines 69-94).
MovedVehicle(speed) ==
    LET targetPoint == taskPoints[1]
        dx == JsSub(targetPoint.latitude, vehicleData.latitude)
        dy == JsSub(targetPoint.longitude, vehicleData.longitude)
        distanceSq == DistanceSq(dx, dy)
        newLat == JsAdd(vehicleData.latitude, UnitStep(dx, distanceSq))
        newLng == JsAdd(vehicleData.longitude, UnitStep(dy, distanceSq))
    IN [vehicleData EXCEPT !.latitude = newLat,
                           !.longitude = newLng,
                           !.heading = Atan2Deg(dy, dx),
                           !.speed = speed,
                           !.battery = Max(@ - BatteryDecrement, 0)]

\* The square of the distance from the vehicle to the waypoint at index 0.
TargetDistanceSq ==
    DistanceSq(JsSub(taskPoints[1].latitude, vehicleData.latitude),
               JsSub(taskPoints[1].longitude, vehicleData.longitude))

\* ArrivalPop with `distance <= 0.0005` in line 97.
ArrivalPop_AtThreshold ==
    IF IsNum(TargetDistanceSq)
       /\ TargetDistanceSq.val <= ArrivalThreshold * ArrivalThreshold
    THEN Tail(taskPoints) ELSE taskPoints

\* The store after the callback's arrival check (lines 96-99).
ArrivalPop == IF BelowThreshold(TargetDistanceSq) THEN Tail(taskPoints) ELSE taskPoints

\* The callback does something only under the condition of line 67.
TickEffective == missionActive /\ Len(taskPoints) > 0

tick ==
    /\ IF TickEffective
         THEN /\ \E speed \in SpeedSamples : vehicleData' = MovedVehicle(speed)
              /\ taskPoints' = ArrivalPop
         ELSE UNCHANGED <<vehicleData, taskPoints>>
    /\ alert' = NoAlert
    /\ UNCHANGED <<selectedPoint, isConnected, missionActive, now>>
    /\ Render

\* The interval fires only while it exists.
Tick == interval /\ tick

(* --------------------- the controls of the page ----------------------- *)
\* The `disabled` props of the buttons (lines 377, 386, 398, 407, 418).
ConnectDisabled == isConnected
DisconnectDisabled == ~isConnected
\* The start button's `disabled` without `!isConnected`.
StartDisabled_NoConnectionCheck == missionActive \/ Len(taskPoints) = 0
StartDisabled == ~isConnected \/ missionActive \/ Len(taskPoints) = 0
StopDisabled == ~isConnected \/ ~missionActive
EmergencyDisabled == ~isConnected

ClickConnect == ~ConnectDisabled /\ connectToVehicle
ClickDisconnect == ~DisconnectDisabled /\ disconnectFromVehicle
ClickStart == ~StartDisabled /\ startMission
ClickStop == ~StopDisabled /\ stopMission
ClickEmergency == ~EmergencyDisabled /\ emergencyStop

\* A click on the map; the clock has not gone back since the last click
\* and may still show the same millisecond.
MapClick ==
    /\ Len(taskPoints) < MaxPoints
    /\ \E lat \in ClickLats, lng \in ClickLngs, at \in now..MaxClock :
         addTaskPoint(lat, lng, at)

ClickRemove == \E i \in 1..Len(taskPoints) : removeTaskPoint(taskPoints[i].id)
ClickClear == clearTaskPoints
ClickPoint == \E i \in 1..Len(taskPoints) : setSelectedPoint(taskPoints[i])
ImportFile == \E file \in Files : importTaskPoints(file)

\* The battery window the exploration covers: the first MaxTicks decrements
\* from full, and everything from MaxTicks down to the floor.
TickBudget ==
    \/ vehicleData.battery > BatteryFull - MaxTicks
    \/ vehicleData.battery <= MaxTicks

BoundedTick == TickBudget /\ Tick

Next ==
    \/ ClickConnect
    \/ ClickDisconnect
    \/ ClickStart
    \/ ClickStop
    \/ ClickEmergency
    \/ MapClick
    \/ ClickRemove
    \/ ClickClear
    \/ ClickPoint
    \/ ImportFile
    \/ BoundedTick

Spec == Init /\ [][Next]_vars

(* ------------------- the handlers called directly --------------------- *)
\* The same handlers without the buttons' `disabled` props in front of them.
HandlerNext ==
    \/ connectToVehicle
    \/ disconnectFromVehicle
    \/ startMission
    \/ stopMission
    \/ emergencyStop
    \/ MapClick
    \/ ClickRemove
    \/ ClickClear
    \/ ClickPoint
    \/ ImportFile
    \/ BoundedTick

HandlerSpec == Init /\ [][HandlerNext]_vars

(* ----------------------- a nearly empty battery ----------------------- *)
\* The page as loaded, or the same with the battery MaxTicks decrements
\* above its floor (a long mission later).
BatteryInit ==
    /\ taskPoints = <<>>
    /\ selectedPoint = <<>>
    /\ \E b \in {BatteryFull, MaxTicks * BatteryDecrement} :
         vehicleData = [latitude |-> Num(0), longitude |-> Num(0),
                        heading |-> [tag |-> "number", dy |-> 0, dx |-> 1],
                        speed |-> 0, battery |-> b]
    /\ isConnected = FALSE
    /\ missionActive = FALSE
    /\ interval = SimulationEffect(FALSE)
    /\ alert = NoAlert
    /\ now = 1

BatterySpec == BatteryInit /\ [][Next]_vars

(* ------------------------- a running mission -------------------------- *)
\* Missions of one to MissionPoints waypoints, none of them at the vehicle's
\* position, added at successive clock values; the operator has connected
\* and started the mission and then leaves the page alone.
MissionPositions ==
    {pos \in {0, 1, MaxLat} \X {0, MaxLng} : pos # <<0, 0>>}

MissionStores ==
    UNION {{[i \in 1..n |-> TaskPoint(i, f[i][1], f[i][2])] :
              f \in [1..n -> MissionPositions]} : n \in 1..MissionPoints}

MissionInit ==
    /\ taskPoints \in MissionStores
    /\ selectedPoint = <<>>
    /\ vehicleData = [latitude |-> Num(0), longitude |-> Num(0),
                      heading |-> [tag |-> "number", dy |-> 0, dx |-> 1],
                      speed |-> 0, battery |-> MaxTicks * BatteryDecrement]
    /\ isConnected = TRUE
    /\ missionActive = TRUE
    /\ interval = SimulationEffect(TRUE)
    /\ alert = NoAlert
    /\ now = Len(taskPoints)

MissionNext == Tick

\* setInterval keeps firing the callback every 100 ms.
MissionSpec == MissionInit /\ [][MissionNext]_vars /\ WF_vars(Tick)

(* ============================== claims ================================ *)
IdPresent(id) == \E i \in 1..Len(taskPoints) : taskPoints[i].id = id

IdsDistinct(points) ==
    \A i, j \in 1..Len(points) : i # j => points[i].id # points[j].id

\* A file that holds a sequence of well-formed waypoints.
WellFormedFile(file) ==
    /\ file.json
    /\ file.array
    /\ \A i \in 1..Len(file.items) :
         IsNum(file.items[i].latitude) /\ IsNum(file.items[i].longitude)

\* The vehicle stands exactly on the waypoint at index 0.
OnTarget ==
    /\ IsNum(vehicleData.latitude) /\ IsNum(vehicleData.longitude)
    /\ taskPoints[1].latitude = vehicleData.latitude
    /\ taskPoints[1].longitude = vehicleData.longitude

\* The waypoint at index 0 is closer to the vehicle than 0.0005 degree
\* (5 units of 0.0001), computed from the coordinates.
HeadWithinThreshold ==
    /\ IsNum(vehicleData.latitude) /\ IsNum(vehicleData.longitude)
    /\ IsNum(taskPoints[1].latitude) /\ IsNum(taskPoints[1].longitude)
    /\ LET a == taskPoints[1].latitude.val - vehicleData.latitude.val
           b == taskPoints[1].longitude.val - vehicleData.longitude.val
       IN a * a + b * b < 25

\* C1: through the page's controls the mission is active only while
\* connected, and every step that turns missionActive from false to true is
\* a click on the start button taken while connected with a non-empty store.
C1_ActiveOnlyWhenConnected ==
    [][ /\ missionActive' => isConnected'
        /\ (~missionActive /\ missionActive')
             => (ClickStart /\ isConnected /\ Len(taskPoints) > 0) ]_vars

C1_Witness == missionActive /\ isConnected /\ Len(taskPoints) > 0

\* C2: startMission called on an empty store shows the "add waypoints first"
\* warning and changes nothing else; with an empty store no step makes an
\* inactive mission active.
C2_StartOnEmptyStoreRejected ==
    [][ Len(taskPoints) = 0 =>
          /\ ~missionActive => ~missionActive'
          /\ startMission =>
               /\ alert' = AddPointsWarning
               /\ UNCHANGED <<isConnected, missionActive, taskPoints,
                              vehicleData, selectedPoint>> ]_vars

C2_Witness ==
    alert = AddPointsWarning /\ Len(taskPoints) = 0 /\ ~missionActive

\* C3: a disconnect leaves the page not connected and the mission not
\* active without touching the vehicle; while not connected the interval
\* does not exist, no step changes the vehicle, and the store changes only
\* by the operator's own store operations.
C3_DisconnectStopsSimulation ==
    [][ /\ ClickDisconnect =>
             ~isConnected' /\ ~missionActive' /\ vehicleData' = vehicleData
        /\ ~isConnected' => ~interval' /\ ~missionActive'
        /\ ~isConnected =>
             /\ vehicleData' = vehicleData
             /\ taskPoints' # taskPoints
                  => (MapClick \/ ClickRemove \/ ClickClear \/ ImportFile) ]_vars

C3_Witness ==
    /\ ~isConnected /\ ~missionActive /\ ~interval
    /\ vehicleData.speed # 0
    /\ Len(taskPoints) > 0

\* C4: a tick that finds the vehicle exactly on the waypoint at index 0
\* leaves latitude and longitude as they were, and they remain numbers.
C4_ZeroDistanceTickSkipsMovement ==
    [][ (TickEffective /\ OnTarget /\ Tick) =>
          /\ IsNum(vehicleData'.latitude) /\ IsNum(vehicleData'.longitude)
          /\ vehicleData'.latitude = vehicleData.latitude
          /\ vehicleData'.longitude = vehicleData.longitude ]_vars

\* C5: the battery stays within [0, 100] and never increases; a tick that
\* finds the mission active and the store non-empty takes the fixed
\* decrement 0.01 off it, floored at 0 (it may hold only at distance 0).
C5_BatteryDecreasesToFloor ==
    [][ /\ vehicleData'.battery >= 0 /\ vehicleData'.battery <= 10000
        /\ vehicleData'.battery <= vehicleData.battery
        /\ (TickEffective /\ Tick) =>
             \/ vehicleData'.battery =
                  (IF vehicleData.battery >= 1 THEN vehicleData.battery - 1 ELSE 0)
             \/ OnTarget /\ vehicleData'.battery = vehicleData.battery ]_vars

C5_Witness ==
    vehicleData.battery = 0 /\ vehicleData.speed # 0 /\ missionActive

\* C6: a tick that finds the mission active and the store non-empty removes
\* exactly the head of the store when the head is closer than the arrival
\* threshold, and leaves the store as it is otherwise.
C6_ArrivalPopsHead ==
    [][ (TickEffective /\ Tick) =>
          IF HeadWithinThreshold
            THEN /\ Len(taskPoints') = Len(taskPoints) - 1
                 /\ \A i \in 1..Len(taskPoints') : taskPoints'[i] = taskPoints[i + 1]
            ELSE taskPoints' = taskPoints ]_vars

\* A waypoint added after the first has become the target of a vehicle that
\* has moved.
C6_Witness ==
    /\ missionActive /\ Len(taskPoints) = 1
    /\ taskPoints[1].id = 2
    /\ vehicleData.speed # 0
    /\ vehicleData.latitude # Num(0)

\* C7: every map click appends its waypoint at the end of the store, and
\* the ids in the store are pairwise distinct after every step.
C7_AppendWithDistinctIds ==
    [][ /\ MapClick =>
             /\ Len(taskPoints') = Len(taskPoints) + 1
             /\ SubSeq(taskPoints', 1, Len(taskPoints)) = taskPoints
        /\ IdsDistinct(taskPoints') ]_vars

\* C8: an import of a file that is not a sequence of well-formed waypoints
\* leaves the store as it was and shows the invalid-file alert.
C8_MalformedImportRejected ==
    [][ \A file \in Files :
          (~WellFormedFile(file) /\ importTaskPoints(file)) =>
             /\ taskPoints' = taskPoints
             /\ alert' = InvalidFileAlert ]_vars

\* C9: a running mission that is left alone eventually empties the store,
\* and once the store is empty the vehicle's position stays where it is.
C9_MissionCompletes ==
    /\ <>(Len(taskPoints) = 0)
    /\ [][ Len(taskPoints) = 0 =>
             /\ vehicleData'.latitude = vehicleData.latitude
             /\ vehicleData'.longitude = vehicleData.longitude ]_vars

\* C10: the selection is null or the id of a waypoint in the store.
C10_SelectionInStore ==
    selectedPoint = <<>> \/ IdPresent(selectedPoint[1])

====
